---- MODULE Spec2Model ----
(***************************************************************************)
(* Model of the voting backend (src/main.py, src/schemas.py).              *)
(*                                                                         *)
(* The four MongoDB collections are sequences of documents; a document's   *)
(* _id is its position in the sequence (documents are never deleted).      *)
(* HTTP handlers run in FastAPI's thread pool, so a handler is split at    *)
(* its database operations: each action is one database operation together *)
(* with the local computation around it.  Up to NReq requests are in       *)
(* flight at once; req is the bag of their local variables.  The answer    *)
(* of a handler is held in response until Send delivers it, which happens  *)
(* before any other step.  The specification SeqSpec runs the requests one *)
(* at a time.                                                              *)
(*                                                                         *)
(* Optional values are <<>> (None) or <<x>>.  Strings whose characters     *)
(* matter (public keys, commitments, proofs, signatures) are sequences of  *)
(* one-character strings.  Fields the handlers store verbatim and never    *)
(* read (name, email, demographics, registered_at, title, description,     *)
(* zk_proof, signed_payload) are left out of the documents.                *)
(***************************************************************************)
EXTENDS Naturals, Sequences, FiniteSets, Bags

VARIABLES voter, authsession, election, voterecord, now, req, response, writes

vars == <<voter, authsession, election, voterecord, now, req, response, writes>>

stores == <<voter, authsession, election, voterecord>>

(* ------------------------------ bounds --------------------------------- *)

\* Requests that may be in flight at the same time.
NReq == 2

\* Writes to the database (insert_one, update_one) in one run.
MaxWrites == 4

\* Last tick of the clock.
MaxTime == 1

(* ------------------------- program constants --------------------------- *)

\* iris_commitment[:8] == iris_commitment_proof[:8]
ProofPrefixLen == 8

\* len(signed_nonce) >= 64
MinSigLen == 64

(* ------------------------------ strings -------------------------------- *)

None == <<>>

Some(x) == <<x>>

\* str.lower() on the characters the inputs use
LowerChar(c) ==
    CASE c = "A" -> "a"
      [] c = "B" -> "b"
      [] c = "C" -> "c"
      [] c = "D" -> "d"
      [] OTHER -> c

Lower(s) == [i \in 1..Len(s) |-> LowerChar(s[i])]

\* s[:n]
Take(s, n) == SubSeq(s, 1, IF Len(s) < n THEN Len(s) ELSE n)

\* hashlib.sha256(data.encode("utf-8")).hexdigest(): a digest, taken to be
\* collision free on the inputs of the model, and never equal to its input.
sha256_hex(data) == <<"sha256">> \o data

\* str(ObjectId): the 24 hex digit rendering of the _id n.
StrOfId(n) == [kind |-> "hex24", n |-> n]

\* A string that is no ObjectId.
MalformedId == [kind |-> "text", n |-> 0]

\* A faulty ObjectId: every string is taken for an _id.
ObjectIdOfAnything(s) == Some(s.n)

\* bson.ObjectId(s): Some(_id), or None when the constructor raises.
ObjectId(s) == IF s.kind = "hex24" THEN Some(s.n) ELSE None

(* ------------------------------ inputs --------------------------------- *)

VoterIds == {"V1", "V2"}

PublicKeys == {<<"a", "b">>, <<"A", "B">>, <<"c", "d">>}

Commitment == <<"c", "0", "m", "m", "1", "t", "0", "1", "x", "y">>

GoodProof == <<"c", "0", "m", "m", "1", "t", "0", "1", "p", "q">>

BadProof == <<"c", "0", "m", "m", "1", "t", "0", "9", "x", "y">>

Sig(n) == [i \in 1..n |-> "f"]

\* secrets.token_hex(16): the n-th token drawn, taken to differ from the
\* tokens drawn before it.
token_hex(n) == <<"token", n>>

Candidates == <<[id |-> "c1"], [id |-> "c2"]>>

Register(voter_id, public_key) ==
    [voter_id |-> voter_id, public_key |-> public_key, iris_commitment |-> Commitment]

\* V1 with two different keys; V2 with V1's first key in capitals and with
\* V1's second key.
RegisterRequests ==
    {Register("V1", <<"a", "b">>), Register("V1", <<"c", "d">>),
     Register("V2", <<"A", "B">>), Register("V2", <<"c", "d">>)}

Verify(voter_id, proof, signed_nonce) ==
    [voter_id |-> voter_id, iris_commitment_proof |-> proof, signed_nonce |-> signed_nonce]

VerifyRequests ==
    {Verify("V1", GoodProof, Sig(MinSigLen)), Verify("V2", GoodProof, Sig(MinSigLen)),
     Verify("V1", BadProof, Sig(MinSigLen)), Verify("V1", GoodProof, Sig(MinSigLen - 1))}

\* Without start_time, open ended or ending at 0; with start_time 1.
CreateElectionRequests ==
    [candidates : {Candidates}, start_time : {None}, end_time : {None, Some(0)}]
    \cup [candidates : {Candidates}, start_time : {Some(1)}, end_time : {None}]

\* public_key_hash of the keys <<"a", "b">> and <<"c", "d">>
HashAB == sha256_hex(<<"a", "b">>)

HashCD == sha256_hex(<<"c", "d">>)

CastVote(election_id, hash, candidate_id) ==
    [election_id |-> election_id, voter_public_key_hash |-> hash,
     candidate_id |-> candidate_id]

\* c9 is no candidate of any election.
CastVoteRequests ==
    {CastVote(StrOfId(1), HashAB, "c1"), CastVote(StrOfId(1), HashAB, "c2"),
     CastVote(StrOfId(1), HashCD, "c1"), CastVote(StrOfId(1), HashAB, "c9"),
     CastVote(StrOfId(2), HashAB, "c1")}

AttachTx(vote_id, tx_hash, contract_address, chain_id) ==
    [vote_id |-> vote_id, tx_hash |-> tx_hash,
     contract_address |-> contract_address, chain_id |-> chain_id]

AttachTxRequests ==
    {AttachTx(StrOfId(1), "0xT1", None, None), AttachTx(StrOfId(1), "0xT2", None, None),
     AttachTx(StrOfId(1), "0xT1", Some("0xC"), Some(1)),
     AttachTx(StrOfId(2), "0xT1", None, None),
     AttachTx(MalformedId, "0xT1", None, None)}

ListVotesRequests == {None, Some(StrOfId(1))}

(* --------------------------- store operations -------------------------- *)

\* _ids of the documents of a collection
Ids(coll) == 1..Len(coll)

\* collection.insert_one(doc): the new document gets the next _id
InsertOne(coll, doc) == Append(coll, doc)

NoResponse == [op |-> "none", status |-> 0, body |-> <<>>]

Reply(op, status, body) == [op |-> op, status |-> status, body |-> body]

Init ==
    /\ voter = <<>>
    /\ authsession = <<>>
    /\ election = <<>>
    /\ voterecord = <<>>
    /\ now = 0
    /\ req = EmptyBag
    /\ response = NoResponse
    /\ writes = 0

\* The locals of the requests in flight
InFlight == BagToSet(req)

\* The last answer has left the server.
Ready == response = NoResponse

\* The request in flight with the locals l takes the step at pc.
At(l, pc) == Ready /\ l.pc = pc

\* A request arrives on a free worker (while the requests in flight can still
\* write).
Arrives ==
    /\ Ready
    /\ BagCardinality(req) < NReq
    /\ writes + BagCardinality(req) < MaxWrites

\* The arriving request is answered in its first step.
AnswerAtOnce(op, status, body) ==
    /\ req' = req
    /\ response' = Reply(op, status, body)

\* The arriving request stays in flight, with its locals.
Begin(locals) ==
    /\ req' = req (+) SetToBag({locals})
    /\ response' = NoResponse

\* The request in flight with the locals l goes on with new locals.
Continue(l, locals) ==
    /\ req' = (req (-) SetToBag({l})) (+) SetToBag({locals})
    /\ response' = NoResponse

\* The request in flight with the locals l is answered.
Answer(l, op, status, body) ==
    /\ req' = req (-) SetToBag({l})
    /\ response' = Reply(op, status, body)

\* The step has written a document.
Written == writes' = writes + 1

(* ----------------------------- registration ---------------------------- *)

\* A faulty VoterExists: the two conditions joined by $and.
VoterExistsBoth(coll, voter_id, pk_hash) ==
    \E i \in Ids(coll) :
        /\ coll[i].voter_id = voter_id
        /\ coll[i].public_key_hash = pk_hash

\* find_one({"$or": [{"voter_id": voter_id}, {"public_key_hash": pk_hash}]})
VoterExists(coll, voter_id, pk_hash) ==
    \E i \in Ids(coll) :
        \/ coll[i].voter_id = voter_id
        \/ coll[i].public_key_hash = pk_hash

\* register_voter, up to the existence check
RegisterFind(p) ==
    LET pk_hash == sha256_hex(Lower(p.public_key)) IN
    /\ Arrives
    /\ IF VoterExists(voter, p.voter_id, pk_hash)
       THEN AnswerAtOnce("register", 400, <<>>)
       ELSE Begin([pc |-> "register_insert", payload |-> p, pk_hash |-> pk_hash])
    /\ UNCHANGED <<voter, authsession, election, voterecord, now, writes>>

\* register_voter, create_document("voter", voter) and the return
RegisterInsert(l) ==
    /\ At(l, "register_insert")
    /\ voter' = InsertOne(voter, [voter_id |-> l.payload.voter_id,
                                  public_key |-> l.payload.public_key,
                                  public_key_hash |-> l.pk_hash,
                                  iris_commitment |-> l.payload.iris_commitment])
    /\ Answer(l, "register", 200, <<StrOfId(Len(voter) + 1), l.pk_hash>>)
    /\ Written
    /\ UNCHANGED <<authsession, election, voterecord, now>>

(* ---------------------------- authentication --------------------------- *)

\* A faulty WithVoterId: the filter is empty.
WithAnyVoterId(coll, voter_id) == Ids(coll)

\* _ids matched by {"voter_id": voter_id}
WithVoterId(coll, voter_id) == {i \in Ids(coll) : coll[i].voter_id = voter_id}

\* auth_challenge, up to the construction of the session
ChallengeFind(voter_id) ==
    /\ Arrives
    /\ IF WithVoterId(voter, voter_id) = {}
       THEN AnswerAtOnce("challenge", 404, <<>>)
       ELSE Begin([pc |-> "challenge_insert", voter_id |-> voter_id,
                   created_at |-> now])
    /\ UNCHANGED <<voter, authsession, election, voterecord, now, writes>>

\* auth_challenge, create_document("authsession", session) and the return
ChallengeInsert(l) ==
    LET nonce == token_hex(Len(authsession) + 1) IN
    /\ At(l, "challenge_insert")
    /\ authsession' = InsertOne(authsession, [voter_id |-> l.voter_id,
                                              nonce |-> nonce,
                                              created_at |-> l.created_at,
                                              verified |-> FALSE])
    /\ Answer(l, "challenge", 200, <<nonce>>)
    /\ Written
    /\ UNCHANGED <<voter, election, voterecord, now>>

\* A faulty LatestSessions: the filter on voter_id is missing.
LatestSessionsOfAnyone(coll, voter_id) ==
    {i \in Ids(coll) : \A j \in Ids(coll) : coll[j].created_at <= coll[i].created_at}

\* find_one({"voter_id": voter_id}, sort=[("created_at", -1)]): the _ids the
\* query may return, those of the voter's sessions with the greatest
\* created_at (the order among equal keys is not specified)
LatestSessions(coll, voter_id) ==
    {i \in WithVoterId(coll, voter_id) :
        \A j \in WithVoterId(coll, voter_id) : coll[j].created_at <= coll[i].created_at}

\* A faulty Verified: every proof and signature is accepted.
VerifiedAlways(v, p) == TRUE

\* proof_ok and sig_ok
Verified(v, p) ==
    /\ Take(v.iris_commitment, ProofPrefixLen) = Take(p.iris_commitment_proof, ProofPrefixLen)
    /\ Len(p.signed_nonce) >= MinSigLen

\* auth_verify, the voter lookup
VerifyFindVoter(p) ==
    /\ Arrives
    /\ IF WithVoterId(voter, p.voter_id) = {}
       THEN AnswerAtOnce("verify", 404, <<>>)
       ELSE \E i \in WithVoterId(voter, p.voter_id) :
               Begin([pc |-> "verify_session", payload |-> p, voter |-> voter[i]])
    /\ UNCHANGED <<voter, authsession, election, voterecord, now, writes>>

\* auth_verify, the session lookup and the simulated checks
VerifyFindSession(l) ==
    /\ At(l, "verify_session")
    /\ IF LatestSessions(authsession, l.payload.voter_id) = {}
       THEN Answer(l, "verify", 400, <<>>)
       ELSE \E s \in LatestSessions(authsession, l.payload.voter_id) :
               IF ~Verified(l.voter, l.payload)
               THEN Answer(l, "verify", 401, <<>>)
               ELSE Continue(l, [pc |-> "verify_update", payload |-> l.payload,
                                 voter |-> l.voter,
                                 session |-> [_id |-> s,
                                              verified |-> authsession[s].verified]])
    /\ UNCHANGED <<voter, authsession, election, voterecord, now, writes>>

\* auth_verify, update_one({"_id": session["_id"]}, {"$set": {"verified": True}})
VerifyUpdate(l) ==
    /\ At(l, "verify_update")
    /\ authsession' = [authsession EXCEPT ![l.session._id].verified = TRUE]
    /\ Answer(l, "verify", 200, <<l.voter.public_key_hash>>)
    /\ Written
    /\ UNCHANGED <<voter, election, voterecord, now>>

(* ------------------------------ elections ------------------------------ *)

\* A faulty CreateElection: start_time is stored as it comes.
CreateElectionAsGiven(p) ==
    /\ Arrives
    /\ election' = InsertOne(election, [candidates |-> p.candidates,
                                        status |-> "active",
                                        start_time |-> p.start_time,
                                        end_time |-> p.end_time])
    /\ AnswerAtOnce("create_election", 200, <<StrOfId(Len(election) + 1)>>)
    /\ Written
    /\ UNCHANGED <<voter, authsession, voterecord, now>>

\* create_election
CreateElection(p) ==
    /\ Arrives
    /\ election' = InsertOne(election, [candidates |-> p.candidates,
                                        status |-> "active",
                                        start_time |-> IF p.start_time = None
                                                       THEN Some(now)
                                                       ELSE p.start_time,
                                        end_time |-> p.end_time])
    /\ AnswerAtOnce("create_election", 200, <<StrOfId(Len(election) + 1)>>)
    /\ Written
    /\ UNCHANGED <<voter, authsession, voterecord, now>>

\* the documents of a collection with _id stringified
Stringified(coll) == [i \in Ids(coll) |-> [_id |-> StrOfId(i), doc |-> coll[i]]]

\* list_elections
ListElections ==
    /\ Arrives
    /\ AnswerAtOnce("list_elections", 200, Stringified(election))
    /\ UNCHANGED <<voter, authsession, election, voterecord, now, writes>>

(* -------------------------------- voting ------------------------------- *)

\* A faulty VoteExists: the filter also names the candidate.
VoteExistsForCandidate(coll, p) ==
    \E i \in Ids(coll) :
        /\ coll[i].election_id = p.election_id
        /\ coll[i].voter_public_key_hash = p.voter_public_key_hash
        /\ coll[i].candidate_id = p.candidate_id

\* find_one({"election_id": ..., "voter_public_key_hash": ...})
VoteExists(coll, p) ==
    \E i \in Ids(coll) :
        /\ coll[i].election_id = p.election_id
        /\ coll[i].voter_public_key_hash = p.voter_public_key_hash

\* cast_vote, up to the existence check
CastVoteFind(p) ==
    /\ Arrives
    /\ IF VoteExists(voterecord, p)
       THEN AnswerAtOnce("cast_vote", 400, <<>>)
       ELSE Begin([pc |-> "vote_insert", payload |-> p])
    /\ UNCHANGED <<voter, authsession, election, voterecord, now, writes>>

\* cast_vote, create_document("voterecord", rec) and the return
CastVoteInsert(l) ==
    /\ At(l, "vote_insert")
    /\ voterecord' = InsertOne(voterecord,
                         [election_id |-> l.payload.election_id,
                          voter_public_key_hash |-> l.payload.voter_public_key_hash,
                          candidate_id |-> l.payload.candidate_id,
                          tx_hash |-> None,
                          chain_id |-> None,
                          contract_address |-> None])
    /\ Answer(l, "cast_vote", 200, <<StrOfId(Len(voterecord) + 1)>>)
    /\ Written
    /\ UNCHANGED <<voter, authsession, election, now>>

\* A faulty AttachTxUpdate: update_many with an empty filter.
AttachTxUpdateMany(p) ==
    LET oid == ObjectId(p.vote_id) IN
    /\ Arrives
    /\ IF oid = None
       THEN /\ AnswerAtOnce("attach_tx", 400, <<>>)
            /\ UNCHANGED <<voterecord, writes>>
       ELSE IF oid[1] \notin Ids(voterecord)
       THEN /\ AnswerAtOnce("attach_tx", 404, <<>>)
            /\ UNCHANGED <<voterecord, writes>>
       ELSE /\ voterecord' = [i \in Ids(voterecord) |->
                                 [voterecord[i] EXCEPT
                                     !.tx_hash = Some(p.tx_hash),
                                     !.contract_address = p.contract_address,
                                     !.chain_id = p.chain_id]]
            /\ AnswerAtOnce("attach_tx", 200, <<>>)
            /\ Written
    /\ UNCHANGED <<voter, authsession, election, now>>

\* attach_tx
AttachTxUpdate(p) ==
    LET oid == ObjectId(p.vote_id) IN
    /\ Arrives
    /\ IF oid = None
       THEN /\ AnswerAtOnce("attach_tx", 400, <<>>)
            /\ UNCHANGED <<voterecord, writes>>
       ELSE IF oid[1] \notin Ids(voterecord)
       THEN /\ AnswerAtOnce("attach_tx", 404, <<>>)
            /\ UNCHANGED <<voterecord, writes>>
       ELSE /\ voterecord' = [voterecord EXCEPT
                                 ![oid[1]].tx_hash = Some(p.tx_hash),
                                 ![oid[1]].contract_address = p.contract_address,
                                 ![oid[1]].chain_id = p.chain_id]
            /\ AnswerAtOnce("attach_tx", 200, <<>>)
            /\ Written
    /\ UNCHANGED <<voter, authsession, election, now>>

\* A faulty SortedDesc: the matching documents, least _id first.
SortedAsc(coll, match) ==
    LET F[n \in 0..Len(coll)] ==
            IF n = 0 THEN <<>>
            ELSE IF n \in match THEN F[n - 1] \o <<n>> ELSE F[n - 1]
    IN F[Len(coll)]

\* find(q).sort("_id", -1): the matching documents, greatest _id first
SortedDesc(coll, match) ==
    LET F[n \in 0..Len(coll)] ==
            IF n = 0 THEN <<>>
            ELSE IF n \in match THEN <<n>> \o F[n - 1] ELSE F[n - 1]
    IN F[Len(coll)]

\* list_votes
ListVotes(election_id) ==
    LET match == IF election_id = None
                 THEN Ids(voterecord)
                 ELSE {i \in Ids(voterecord) : voterecord[i].election_id = election_id[1]}
        found == SortedDesc(voterecord, match)
    IN
    /\ Arrives
    /\ AnswerAtOnce("list_votes", 200,
                    [k \in 1..Len(found) |-> [_id |-> StrOfId(found[k]),
                                              doc |-> voterecord[found[k]]]])
    /\ UNCHANGED <<voter, authsession, election, voterecord, now, writes>>

(* ------------------------- responses and the clock --------------------- *)

\* The answer of a handler (its return value or its HTTPException) leaves the
\* server.
Send ==
    /\ response # NoResponse
    /\ response' = NoResponse
    /\ UNCHANGED <<voter, authsession, election, voterecord, now, req, writes>>

\* datetime.utcnow() moves on.
Tick ==
    /\ Ready
    /\ now < MaxTime
    /\ now' = now + 1
    /\ response' = NoResponse
    /\ UNCHANGED <<voter, authsession, election, voterecord, req, writes>>

(* ---------------------------- specifications --------------------------- *)

\* A request arrives and takes its first step.
First ==
    \/ \E p \in RegisterRequests : RegisterFind(p)
    \/ \E v \in VoterIds : ChallengeFind(v)
    \/ \E p \in VerifyRequests : VerifyFindVoter(p)
    \/ \E p \in CreateElectionRequests : CreateElection(p)
    \/ ListElections
    \/ \E p \in CastVoteRequests : CastVoteFind(p)
    \/ \E p \in AttachTxRequests : AttachTxUpdate(p)
    \/ \E e \in ListVotesRequests : ListVotes(e)

\* A request in flight takes its next step.
Later ==
    \/ \E l \in InFlight : RegisterInsert(l)
    \/ \E l \in InFlight : ChallengeInsert(l)
    \/ \E l \in InFlight : VerifyFindSession(l)
    \/ \E l \in InFlight : VerifyUpdate(l)
    \/ \E l \in InFlight : CastVoteInsert(l)

Next == Tick \/ Send \/ First \/ Later

Spec == Init /\ [][Next]_vars

\* No request is in flight.
Quiet == req = EmptyBag

\* A request arrives while no other is in flight.
SeqFirst ==
    \/ \E p \in RegisterRequests : Quiet /\ RegisterFind(p)
    \/ \E v \in VoterIds : Quiet /\ ChallengeFind(v)
    \/ \E p \in VerifyRequests : Quiet /\ VerifyFindVoter(p)
    \/ \E p \in CreateElectionRequests : Quiet /\ CreateElection(p)
    \/ Quiet /\ ListElections
    \/ \E p \in CastVoteRequests : Quiet /\ CastVoteFind(p)
    \/ \E p \in AttachTxRequests : Quiet /\ AttachTxUpdate(p)
    \/ \E e \in ListVotesRequests : Quiet /\ ListVotes(e)

SeqNext == Tick \/ Send \/ SeqFirst \/ Later

\* The requests do not overlap.
SeqSpec == Init /\ [][SeqNext]_vars

(* ======================================================================= *)
(* Properties                                                              *)
(* ======================================================================= *)

\* The request in flight with the locals l takes a step.
Leaves(l) == CopiesIn(l, req') < CopiesIn(l, req)

\* A vote is stored for the election id e and the voter hash h.
HasVoted(e, h) ==
    \E i \in Ids(voterecord) :
        voterecord[i].election_id = e /\ voterecord[i].voter_public_key_hash = h

\* The store holds at most one vote per election and voter hash.
OneVotePerVoter ==
    \A i, j \in Ids(voterecord) :
        (/\ voterecord[i].election_id = voterecord[j].election_id
         /\ voterecord[i].voter_public_key_hash = voterecord[j].voter_public_key_hash)
        => i = j

\* C1: when requests do not overlap, a CastVote for an election and voter
\* hash that already has a stored vote is answered 400 and stores nothing,
\* whatever candidate it names, so the store never holds two votes for one
\* election and voter hash.
C1_SequentialNoDoubleVote ==
    /\ []OneVotePerVoter
    /\ [][\A p \in CastVoteRequests :
            (CastVoteFind(p) /\ HasVoted(p.election_id, p.voter_public_key_hash))
            => /\ response' = Reply("cast_vote", 400, <<>>)
               /\ voterecord' = voterecord
               /\ req' = req]_vars

\* C1 witness: a second vote for the one stored vote's election and voter
\* has just been refused.
C1_Witness ==
    /\ response = Reply("cast_vote", 400, <<>>)
    /\ Len(voterecord) = 1
    /\ req = EmptyBag

\* C2: no reachable state holds two votes with the same election id and
\* voter hash, also when CastVote requests overlap.
C2_ConcurrentNoDoubleVote ==
    \A i, j \in Ids(voterecord) :
        i # j => \/ voterecord[i].election_id # voterecord[j].election_id
                 \/ voterecord[i].voter_public_key_hash
                        # voterecord[j].voter_public_key_hash

\* A stored voter has the voter id, or the public key up to case, of p.
Registered(p) ==
    \E i \in Ids(voter) :
        \/ voter[i].voter_id = p.voter_id
        \/ Lower(voter[i].public_key) = Lower(p.public_key)

\* C3: when requests do not overlap, a Register whose voter id or lowercased
\* public key is that of a stored voter is answered 400 and stores nothing;
\* any other Register passes the check and ends by storing the voter and
\* answering 200.
C3_SequentialRegistration ==
    [][/\ \A p \in RegisterRequests :
            RegisterFind(p) =>
               IF Registered(p)
               THEN /\ response' = Reply("register", 400, <<>>)
                    /\ voter' = voter
                    /\ req' = req
               ELSE /\ response' = NoResponse
                    /\ voter' = voter
                    /\ \E l \in BagToSet(req') :
                          l.pc = "register_insert" /\ l.payload = p
       /\ \A l \in InFlight :
            (l.pc = "register_insert" /\ Leaves(l)) =>
               /\ ~Registered(l.payload)
               /\ response'.op = "register"
               /\ response'.status = 200
               /\ req' = EmptyBag
               /\ Len(voter') = Len(voter) + 1
               /\ voter'[Len(voter')].voter_id = l.payload.voter_id
               /\ voter'[Len(voter')].public_key = l.payload.public_key]_vars

\* C3 witness: two voters are stored and a third registration has just been
\* refused.
C3_Witness ==
    /\ response = Reply("register", 400, <<>>)
    /\ Len(voter) = 2

\* C4: no two stored voters share a voter id and no two share a public key
\* hash, also when Register requests overlap.
C4_VoterKeysUnique ==
    \A i, j \in Ids(voter) :
        i # j => /\ voter[i].voter_id # voter[j].voter_id
                 /\ voter[i].public_key_hash # voter[j].public_key_hash

\* The voter id v has a stored challenge.
HasSession(v) == \E i \in Ids(authsession) : authsession[i].voter_id = v

\* The challenge with the _id s is among the latest of its voter.
IsLatest(s) ==
    \A j \in Ids(authsession) :
        authsession[j].voter_id = authsession[s].voter_id
        => authsession[j].created_at <= authsession[s].created_at

\* C5: a Verify succeeds only against a challenge whose verified flag was
\* false when the request read it: a verified challenge yields no second
\* success.
C5_SingleUseNonce ==
    [][\A l \in InFlight : VerifyUpdate(l) => ~l.session.verified]_vars

\* C6: of the Verify requests that read one challenge before any of them
\* marks it verified, only one succeeds: a request that read the challenge
\* unverified does not succeed once another request has marked it.
C6_ConcurrentVerifyOnce ==
    [][\A l \in InFlight :
         (VerifyUpdate(l) /\ ~l.session.verified)
         => ~authsession[l.session._id].verified]_vars

\* C7: a Verify for a registered voter who has no stored challenge is
\* answered 400, whatever proof and signature it carries, and changes no
\* collection; no Verify step of such a voter changes a collection or gives
\* another answer.
C7_VerifyWithoutChallenge ==
    [][/\ \A p \in VerifyRequests :
            (VerifyFindVoter(p) /\ WithVoterId(voter, p.voter_id) # {}
               /\ ~HasSession(p.voter_id))
            => /\ response' = NoResponse
               /\ UNCHANGED stores
       /\ \A l \in InFlight :
            (l.pc = "verify_session" /\ ~HasSession(l.payload.voter_id) /\ Leaves(l))
            => /\ response' = Reply("verify", 400, <<>>)
               /\ req' = req (-) SetToBag({l})
               /\ UNCHANGED stores
       /\ \A l \in InFlight :
            (l.pc = "verify_update" /\ Leaves(l)) => HasSession(l.payload.voter_id)]_vars

\* C7 witness: a Verify has just been answered 400 while both voters are
\* registered and one of them has a challenge.
C7_Witness ==
    /\ response = Reply("verify", 400, <<>>)
    /\ Len(voter) = 2
    /\ Len(authsession) = 1

\* C8: the challenge a successful Verify marks verified is, at that moment,
\* one with the greatest created_at among its voter's challenges.
C8_LatestChallengeVerified ==
    [][\A l \in InFlight : VerifyUpdate(l) => IsLatest(l.session._id)]_vars

\* The candidate ids of the stored election whose _id renders as e.
CandidateIdsOf(e) ==
    UNION {{election[k].candidates[c].id : c \in 1..Len(election[k].candidates)} :
              k \in {n \in Ids(election) : StrOfId(n) = e}}

\* C9: every stored vote for a stored election names a candidate of that
\* election.
C9_VotesNameCandidates ==
    \A i \in Ids(voterecord) :
        (\E k \in Ids(election) : StrOfId(k) = voterecord[i].election_id)
        => voterecord[i].candidate_id \in CandidateIdsOf(voterecord[i].election_id)

\* The stored election whose _id renders as e is open at the time t.
ElectionOpen(e, t) ==
    \E k \in Ids(election) :
        /\ StrOfId(k) = e
        /\ election[k].status = "active"
        /\ election[k].end_time # None
              => election[k].start_time[1] <= t /\ t <= election[k].end_time[1]

\* C10: a CastVote succeeds only for a stored, active election, within its
\* time window when end_time is set.
C10_VotesOnlyInOpenElections ==
    [][\A l \in InFlight :
         CastVoteInsert(l) => ElectionOpen(l.payload.election_id, now)]_vars

\* C11: once a vote's tx_hash is set, no step changes it: an AttachTransaction
\* that carries another tx_hash does not replace the stored one.
C11_AttachedOnce ==
    [][\A i \in Ids(voterecord) :
         voterecord[i].tx_hash # None
         => voterecord'[i].tx_hash = voterecord[i].tx_hash]_vars

\* The vote the request p names is stored and has the tx_hash of p.
AttachedAs(p) ==
    /\ ObjectId(p.vote_id) # None
    /\ ObjectId(p.vote_id)[1] \in Ids(voterecord)
    /\ voterecord[ObjectId(p.vote_id)[1]].tx_hash = Some(p.tx_hash)

\* C12: an AttachTransaction that carries the tx_hash its vote already has
\* is answered 200 and leaves the vote store as it was, whatever
\* contract_address and chain_id it carries.
C12_AttachRetryIsNoOp ==
    [][\A p \in AttachTxRequests :
         (AttachTxUpdate(p) /\ AttachedAs(p))
         => /\ response' = Reply("attach_tx", 200, <<>>)
            /\ voterecord' = voterecord]_vars

\* C13: an AttachTransaction whose vote_id is no ObjectId is answered 400,
\* one whose vote_id is the _id of no stored vote is answered 404, and
\* neither changes the vote store.
C13_AttachUnknownVote ==
    [][\A p \in AttachTxRequests :
         AttachTxUpdate(p) =>
            /\ p.vote_id = MalformedId
               => /\ response' = Reply("attach_tx", 400, <<>>)
                  /\ voterecord' = voterecord
            /\ (p.vote_id # MalformedId
                  /\ \A i \in Ids(voterecord) : StrOfId(i) # p.vote_id)
               => /\ response' = Reply("attach_tx", 404, <<>>)
                  /\ voterecord' = voterecord]_vars

\* C13 witness: an AttachTransaction has just been answered 404 while a vote
\* with another _id is stored.
C13_Witness ==
    /\ response = Reply("attach_tx", 404, <<>>)
    /\ Len(voterecord) = 1

\* A voter with the voter id v is stored.
IsRegisteredId(v) == \E i \in Ids(voter) : voter[i].voter_id = v

\* C14: for a voter id that no stored voter has, IssueChallenge is answered
\* 404 and stores no challenge, and Verify is answered 404 in its first step,
\* without going on to the session lookup; every stored challenge has the
\* voter id of a stored voter.
C14_UnknownVoterNotFound ==
    /\ [](\A s \in Ids(authsession) : IsRegisteredId(authsession[s].voter_id))
    /\ [][/\ \A v \in VoterIds :
               (ChallengeFind(v) /\ ~IsRegisteredId(v))
               => /\ response' = Reply("challenge", 404, <<>>)
                  /\ req' = req
                  /\ UNCHANGED stores
          /\ \A p \in VerifyRequests :
               (VerifyFindVoter(p) /\ ~IsRegisteredId(p.voter_id))
               => /\ response' = Reply("verify", 404, <<>>)
                  /\ req' = req
                  /\ UNCHANGED stores]_vars

\* C14 witness: a challenge for an unregistered voter id has just been
\* refused while another voter is registered and has a challenge.
C14_Witness ==
    /\ response = Reply("challenge", 404, <<>>)
    /\ Len(voter) = 1
    /\ Len(authsession) = 1

\* The place of a status in the order draft, active, closed
StatusRank(status) ==
    CASE status = "draft" -> 0
      [] status = "active" -> 1
      [] status = "closed" -> 2

\* C15: no step deletes an election or moves its status backwards in the
\* order draft, active, closed; CreateElection stores one election, with
\* status active and with start_time the supplied value or, when none is
\* supplied, the time of the creation.
C15_ElectionLifecycle ==
    [][/\ Len(election') >= Len(election)
       /\ \A k \in Ids(election) :
            StatusRank(election'[k].status) >= StatusRank(election[k].status)
       /\ \A k \in Ids(election') \ Ids(election) :
            election'[k].status = "active" /\ election'[k].start_time # None
       /\ \A p \in CreateElectionRequests :
            CreateElection(p) =>
               /\ Len(election') = Len(election) + 1
               /\ election'[Len(election')].start_time
                     = IF p.start_time # None THEN p.start_time ELSE Some(now)]_vars

\* C15 witness: at time 0 an election has just been created with the
\* supplied start_time 1, after one created without start_time.
C15_Witness ==
    /\ response = Reply("create_election", 200, <<StrOfId(2)>>)
    /\ now = 0
    /\ Len(election) = 2
    /\ election[1].start_time = Some(0)
    /\ election[2].start_time = Some(1)

\* No step deletes a stored voter or changes one of its fields.
VotersKept ==
    /\ Len(voter') >= Len(voter)
    /\ \A i \in Ids(voter) : voter'[i] = voter[i]

\* C16: no step deletes or changes a stored voter, and a successful Verify
\* returns the public_key_hash that Register stored and returned for the
\* voter id it names: the hash of every stored voter with that voter id.
C16_VoterIdentityStable ==
    [][/\ VotersKept
       /\ \A l \in InFlight :
            VerifyUpdate(l) =>
               \A i \in Ids(voter) :
                  voter[i].voter_id = l.payload.voter_id
                  => response'.body = <<voter[i].public_key_hash>>]_vars

\* A stored voter has the public key hash h and a verified challenge.
HasPassedVerify(h) ==
    \E v \in Ids(voter) :
        /\ voter[v].public_key_hash = h
        /\ \E s \in Ids(authsession) :
              /\ authsession[s].voter_id = voter[v].voter_id
              /\ authsession[s].verified

\* C17: every stored vote carries the public key hash of a registered voter
\* who has passed Verify.
C17_VotesByAuthenticated ==
    \A i \in Ids(voterecord) : HasPassedVerify(voterecord[i].voter_public_key_hash)

\* The proof or the signature of the Verify request p is not acceptable for
\* the voter v.
Rejected(v, p) ==
    \/ \E k \in 1..ProofPrefixLen : p.iris_commitment_proof[k] # v.iris_commitment[k]
    \/ Len(p.signed_nonce) < MinSigLen

\* The step answers a Verify with a failure.
VerifyFails == response'.op = "verify" /\ response'.status # 200

\* C18: no step deletes a challenge or changes its voter_id, nonce or
\* created_at; verified never goes from true to false, and goes from false to
\* true only in a step that answers a Verify with 200; a step that answers a
\* Verify with a failure changes no challenge, and a Verify whose proof or
\* signature is not acceptable is answered with a failure.
C18_ChallengesKept ==
    [][/\ Len(authsession') >= Len(authsession)
       /\ \A s \in Ids(authsession) :
            /\ authsession'[s].voter_id = authsession[s].voter_id
            /\ authsession'[s].nonce = authsession[s].nonce
            /\ authsession'[s].created_at = authsession[s].created_at
            /\ authsession[s].verified => authsession'[s].verified
            /\ authsession'[s].verified # authsession[s].verified
               => response' = Reply("verify", 200, response'.body)
       /\ \A k \in Ids(authsession') \ Ids(authsession) : ~authsession'[k].verified
       /\ VerifyFails => authsession' = authsession
       /\ \A l \in InFlight :
            (l.pc \in {"verify_session", "verify_update"} /\ Leaves(l)
               /\ Rejected(l.voter, l.payload))
            => /\ authsession' = authsession
               /\ response'.status # 200]_vars

\* C18 witness: a Verify with a bad proof or signature has just been refused
\* with 401 while the voter's challenge, verified before, is still stored and
\* still verified.
C18_Witness ==
    /\ response = Reply("verify", 401, <<>>)
    /\ Len(authsession) = 1
    /\ authsession[1].verified

\* The votes r and q agree on the three fields CastVote takes from its request.
SameVote(r, q) ==
    /\ r.election_id = q.election_id
    /\ r.voter_public_key_hash = q.voter_public_key_hash
    /\ r.candidate_id = q.candidate_id

\* C19: no step deletes a vote or changes its election_id,
\* voter_public_key_hash or candidate_id; a vote is stored with tx_hash,
\* chain_id and contract_address absent; AttachTransaction leaves every vote
\* but the one its vote_id names as it was, and stores no vote; a step that
\* is no AttachTransaction changes no stored vote.
C19_VoteAttachFrame ==
    [][/\ Len(voterecord') >= Len(voterecord)
       /\ \A i \in Ids(voterecord) : SameVote(voterecord'[i], voterecord[i])
       /\ \A k \in Ids(voterecord') \ Ids(voterecord) :
            /\ voterecord'[k].tx_hash = None
            /\ voterecord'[k].chain_id = None
            /\ voterecord'[k].contract_address = None
       /\ \A p \in AttachTxRequests :
            AttachTxUpdate(p) =>
               /\ Len(voterecord') = Len(voterecord)
               /\ \A i \in Ids(voterecord) :
                    StrOfId(i) # p.vote_id => voterecord'[i] = voterecord[i]
       /\ response'.op # "attach_tx"
          => \A i \in Ids(voterecord) : voterecord'[i] = voterecord[i]]_vars

\* C19 witness: of two stored votes the first has just got its transaction
\* attached, the second has none.
C19_Witness ==
    /\ response = Reply("attach_tx", 200, <<>>)
    /\ Len(voterecord) = 2
    /\ voterecord[1].tx_hash # None
    /\ voterecord[1].contract_address # None
    /\ voterecord[2].tx_hash = None

====
